---- MODULE Spec2Model ----
(***************************************************************************)
(* Model of the address-book service (src/main.py): a FastAPI application  *)
(* with five handlers over one SQLite table `addresses`.  A request is     *)
(* parsed into the pydantic model Address (create, update), checked by its *)
(* validators, and only then handed to the handler, which opens a          *)
(* connection, runs one statement, commits and closes.                     *)
(*                                                                         *)
(* Representation.  Text columns name/street/city/state are strings.  zip  *)
(* is a sequence of Unicode code points, so that str.isnumeric() is        *)
(* modelled character by character.  lat and lon are finite numbers; the   *)
(* model uses whole degrees.  A request body is a record whose flag has_id *)
(* tells whether the JSON object carries the key "id".                     *)
(***************************************************************************)
EXTENDS Integers, Sequences, FiniteSets, TLC

\* Cap on the number of rows ever inserted (bounds sqlite_sequence.seq).
MaxSeq == 2

VARIABLES
    table,        \* rows of `addresses`: a set of records with the eight columns
    seq,          \* sqlite_sequence.seq for `addresses` (AUTOINCREMENT high-water mark)
    req,          \* the request handled last: op, path parameter, parsed body
    resp,         \* the HTTP response to it
    conn_opened,  \* whether the handler body ran get_db_connection() for it
    rowcount,     \* cursor.rowcount of the statement it executed
    issued,       \* history: every id a create has returned
    submitted     \* history: id -> columns submitted at creation, while no
                  \* update or delete request has addressed that id since

vars == <<table, seq, req, resp, conn_opened, rowcount, issued, submitted>>

----------------------------------------------------------------------------
(* Request bodies *)

\* The body of the spec's create scenario, carrying an id as the model class requires.
Base ==
    [has_id |-> TRUE, id |-> 1, name |-> "A", street |-> "1 Main", city |-> "X",
     state |-> "Y", zip |-> <<49, 50, 51, 52, 53>>, lat |-> 10, lon |-> 20]

\* A body that differs from Base in every column, on the lower/upper range ends.
Alt ==
    [has_id |-> TRUE, id |-> 2, name |-> "B", street |-> "2 Oak", city |-> "Z",
     state |-> "W", zip |-> <<48>>, lat |-> -90, lon |-> 180]

\* Empty text columns, the other range ends.
Edge ==
    [has_id |-> TRUE, id |-> 1, name |-> "", street |-> "", city |-> "",
     state |-> "", zip |-> <<57, 57>>, lat |-> 90, lon |-> -180]

\* zip is the single character U+00BD (vulgar fraction one half).
Half == [Base EXCEPT !.zip = <<189>>]

\* The body the interface description prescribes for create: no "id" key.
NoId == [Base EXCEPT !.has_id = FALSE, !.id = 0]

Bodies ==
    {Base, Alt, Edge, Half, NoId,
     [Base EXCEPT !.zip = <<>>],
     [Base EXCEPT !.zip = <<97, 98, 99, 49, 50>>],
     [Base EXCEPT !.zip = <<49, 50, 32>>],
     [Base EXCEPT !.lat = -91],
     [Base EXCEPT !.lat = 91],
     [Base EXCEPT !.lon = -181],
     [Base EXCEPT !.lon = 181],
     [Alt EXCEPT !.lat = 91, !.zip = <<>>]}

\* Placeholder for requests that have no body (get, delete, list).
NoBody ==
    [has_id |-> FALSE, id |-> 0, name |-> "", street |-> "", city |-> "",
     state |-> "", zip |-> <<>>, lat |-> 0, lon |-> 0]

PathIds == 1..MaxSeq

----------------------------------------------------------------------------
(* class Address: validators *)

\* Characters below U+0100 for which Python's str.isnumeric() is true:
\* the decimal digits, superscripts 2 3 1 and the fractions 1/4 1/2 3/4.
IsNumericChar(c) == c \in (48..57) \cup {178, 179, 185, 188, 189, 190}

\* str.isnumeric(): at least one character and all characters numeric.
isnumeric(s) == Len(s) > 0 /\ \A i \in 1..Len(s) : IsNumericChar(s[i])

\* Variant: only the upper limit is tested.
check_lat_UpperOnly(v) == ~(v > 90)

\* TRUE iff the validator returns v (does not raise).
check_lat(v) == ~(v < -90 \/ v > 90)

check_lon(v) == ~(v < -180 \/ v > 180)

check_zip(v) == ~(~isnumeric(v))

\* Fields for which parsing the body into Address reports an error.
ValidationErrors(a) ==
    (IF a.has_id THEN {} ELSE {"id"})
    \cup (IF check_zip(a.zip) THEN {} ELSE {"zip"})
    \cup (IF check_lat(a.lat) THEN {} ELSE {"lat"})
    \cup (IF check_lon(a.lon) THEN {} ELSE {"lon"})

----------------------------------------------------------------------------
(* Storage: the statements the handlers execute *)

Columns(a) ==
    [name |-> a.name, street |-> a.street, city |-> a.city, state |-> a.state,
     zip |-> a.zip, lat |-> a.lat, lon |-> a.lon]

Row(i, c) ==
    [id |-> i, name |-> c.name, street |-> c.street, city |-> c.city,
     state |-> c.state, zip |-> c.zip, lat |-> c.lat, lon |-> c.lon]

RowIds(t) == {r.id : r \in t}

Max2(a, b) == IF a > b THEN a ELSE b

MaxRowid(t) == IF t = {} THEN 0 ELSE CHOOSE m \in {r.id : r \in t} : \A r \in t : r.id <= m

\* INTEGER PRIMARY KEY AUTOINCREMENT: the new rowid is one more than the
\* largest rowid that has ever existed in the table.
NextRowid(t, s) == Max2(MaxRowid(t), s) + 1

\* Variant: lat and lon bound to each other's placeholder.
SqlInsert_SwapLatLon(t, s, a) ==
    LET i == NextRowid(t, s)
    IN  [table |-> t \cup {Row(i, [Columns(a) EXCEPT !.lat = a.lon, !.lon = a.lat])},
         seq |-> i, lastrowid |-> i]

\* INSERT INTO addresses (name, ..., lon) VALUES (...)
SqlInsert(t, s, a) ==
    LET i == NextRowid(t, s)
    IN  [table |-> t \cup {Row(i, Columns(a))}, seq |-> i, lastrowid |-> i]

\* Variant: the WHERE clause is missing.
SqlUpdate_NoWhere(t, i, a) ==
    [table |-> {Row(r.id, Columns(a)) : r \in t}, rowcount |-> Cardinality(t)]

\* UPDATE addresses SET name = ?, ..., lon = ? WHERE id = ?
SqlUpdate(t, i, a) ==
    LET hit == {r \in t : r.id = i}
    IN  [table |-> (t \ hit) \cup {Row(r.id, Columns(a)) : r \in hit},
         rowcount |-> Cardinality(hit)]

\* Variant: the WHERE clause is missing.
SqlDelete_NoWhere(t, i) == [table |-> {}, rowcount |-> Cardinality(t)]

\* DELETE FROM addresses WHERE id = ?
SqlDelete(t, i) ==
    LET hit == {r \in t : r.id = i}
    IN  [table |-> t \ hit, rowcount |-> Cardinality(hit)]

\* Variant: the WHERE clause is missing; fetchone() gives some row.
SqlSelectOne_NoWhere(t, i) == IF t = {} THEN {} ELSE {CHOOSE r \in t : TRUE}

\* SELECT * FROM addresses WHERE id = ?  with fetchone(): {} stands for None.
SqlSelectOne(t, i) == {r \in t : r.id = i}

\* SELECT * FROM addresses  with fetchall()
SqlSelectAll(t) == t

----------------------------------------------------------------------------
(* Responses *)

Response(st, det, msg, errs, i, rows) ==
    [status |-> st, detail |-> det, message |-> msg, errs |-> errs, id |-> i, rows |-> rows]

NoResponse == Response(0, "", "", {}, 0, {})

Unprocessable(errs) == Response(422, "", "", errs, 0, {})

NotFound == Response(404, "Address not found", "", {}, 0, {})

\* get_address: 404 when fetchone() gave None, else dict(address)
get_result(found) == IF found = {} THEN NotFound ELSE Response(200, "", "", {}, 0, found)

\* Variant: the rowcount is not looked at.
update_result_NoCheck(rc) == Response(200, "", "Address updated successfully", {}, 0, {})

\* update_address: 404 when cursor.rowcount == 0
update_result(rc) ==
    IF rc = 0 THEN NotFound ELSE Response(200, "", "Address updated successfully", {}, 0, {})

\* delete_address: the same message whatever the statement did
delete_result(rc) == Response(200, "", "Address deleted successfully", {}, 0, {})

Request(op, i, a) == [op |-> op, address_id |-> i, address |-> a]

Forget(f, i) == [k \in (DOMAIN f) \ {i} |-> f[k]]

Remember(f, i, c) == [k \in (DOMAIN f) \cup {i} |-> IF k = i THEN c ELSE f[k]]

----------------------------------------------------------------------------
(* State machine *)

\* startup on a fresh address.db: CREATE TABLE IF NOT EXISTS addresses (...)
Init ==
    /\ table = {}
    /\ seq = 0
    /\ req = Request("startup", 0, NoBody)
    /\ resp = NoResponse
    /\ conn_opened = TRUE
    /\ rowcount = -1
    /\ issued = {}
    /\ submitted = [k \in {} |-> Columns(NoBody)]

\* A create or update request whose body fails validation: 422, handler not run.
Rejected(op, i, a) ==
    /\ req' = Request(op, i, a)
    /\ resp' = Unprocessable(ValidationErrors(a))
    /\ conn_opened' = FALSE
    /\ rowcount' = -1
    /\ UNCHANGED <<table, seq, issued>>

\* GET /addresses
get_addresses ==
    /\ req' = Request("list", 0, NoBody)
    /\ resp' = Response(200, "", "", {}, 0, SqlSelectAll(table))
    /\ conn_opened' = TRUE
    /\ rowcount' = -1
    /\ UNCHANGED <<table, seq, issued, submitted>>

\* GET /addresses/{address_id}
get_address(address_id) ==
    /\ req' = Request("get", address_id, NoBody)
    /\ resp' = get_result(SqlSelectOne(table, address_id))
    /\ conn_opened' = TRUE
    /\ rowcount' = -1
    /\ UNCHANGED <<table, seq, issued, submitted>>

\* POST /addresses
create_address(address) ==
    IF ValidationErrors(address) # {}
    THEN /\ Rejected("create", 0, address)
         /\ UNCHANGED submitted
    ELSE LET ins == SqlInsert(table, seq, address)
         IN  /\ seq < MaxSeq
             /\ req' = Request("create", 0, address)
             /\ table' = ins.table
             /\ seq' = ins.seq
             /\ resp' = Response(200, "", "", {}, ins.lastrowid, {})
             /\ conn_opened' = TRUE
             /\ rowcount' = 1
             /\ issued' = issued \cup {ins.lastrowid}
             /\ submitted' = Remember(submitted, ins.lastrowid, Columns(address))

\* PUT /addresses/{address_id}
update_address(address_id, address) ==
    /\ submitted' = Forget(submitted, address_id)
    /\ IF ValidationErrors(address) # {}
       THEN Rejected("update", address_id, address)
       ELSE LET upd == SqlUpdate(table, address_id, address)
            IN  /\ req' = Request("update", address_id, address)
                /\ table' = upd.table
                /\ rowcount' = upd.rowcount
                /\ resp' = update_result(upd.rowcount)
                /\ conn_opened' = TRUE
                /\ UNCHANGED <<seq, issued>>

\* DELETE /addresses/{address_id}
delete_address(address_id) ==
    LET del == SqlDelete(table, address_id)
    IN  /\ req' = Request("delete", address_id, NoBody)
        /\ table' = del.table
        /\ rowcount' = del.rowcount
        /\ resp' = delete_result(del.rowcount)
        /\ conn_opened' = TRUE
        /\ submitted' = Forget(submitted, address_id)
        /\ UNCHANGED <<seq, issued>>

Next ==
    \/ get_addresses
    \/ \E i \in PathIds : get_address(i)
    \/ \E a \in Bodies : create_address(a)
    \/ \E i \in PathIds, a \in Bodies : update_address(i, a)
    \/ \E i \in PathIds : delete_address(i)

Spec == Init /\ [][Next]_vars

----------------------------------------------------------------------------
(* The data-model constraints, as the interface description words them *)

IsDecimalDigit(c) == c \in 48..57

\* Non-empty and made of decimal digits only.
DigitsOnly(z) == Len(z) > 0 /\ \A k \in 1..Len(z) : IsDecimalDigit(z[k])

LatInRange(v) == -90 <= v /\ v <= 90

LonInRange(v) == -180 <= v /\ v <= 180

HasBody(r) == r.op \in {"create", "update"}

RowsWithId(t, i) == {r \in t : r.id = i}

----------------------------------------------------------------------------
(* Properties *)

\* C1: a create request whose lat is in [-90, 90], whose lon is in
\* [-180, 180] and whose zip is made of digits succeeds and returns a
\* positive id that no earlier create has returned.
C1_CreateReturnsFreshId ==
    [][(/\ req'.op = "create"
        /\ LatInRange(req'.address.lat)
        /\ LonInRange(req'.address.lon)
        /\ DigitsOnly(req'.address.zip))
       => (/\ resp'.status = 200
           /\ resp'.id > 0
           /\ resp'.id \notin issued)]_vars

\* C2: a create request whose body carries no id and whose other fields are
\* all valid returns 200 with the new id, not 422.
C2_CreateWithoutIdAccepted ==
    [][(/\ req'.op = "create"
        /\ ~req'.address.has_id
        /\ ValidationErrors(req'.address) \subseteq {"id"})
       => (resp'.status = 200 /\ resp'.id \in RowIds(table') /\ resp'.status # 422)]_vars

\* C3: a get on an id returned by a successful create, with no update or
\* delete of that id in between, returns 200 with the seven submitted
\* values and with that id.
C3_RoundTrip ==
    [][(req'.op = "get" /\ req'.address_id \in DOMAIN submitted)
       => (/\ resp'.status = 200
           /\ resp'.rows = {Row(req'.address_id, submitted[req'.address_id])})]_vars

C3_Witness ==
    /\ req.op = "get"
    /\ req.address_id \in DOMAIN submitted
    /\ resp.status = 200
    /\ Cardinality(table) > 1

\* C4: a create or update is rejected with a validation error on zip
\* exactly when its zip is empty or has a character that is not a decimal
\* digit.
C4_ZipAcceptedIffDigits ==
    [][HasBody(req') => (("zip" \in resp'.errs) <=> ~DigitsOnly(req'.address.zip))]_vars

\* C5: a create or update whose lat or lon is out of range is rejected with
\* a validation error naming the field, before any storage access: no row
\* inserted or modified, no id consumed.
C5_OutOfRangeRejected ==
    [][(HasBody(req') /\ (~LatInRange(req'.address.lat) \/ ~LonInRange(req'.address.lon)))
       => (/\ resp'.status = 422
           /\ (~LatInRange(req'.address.lat) => "lat" \in resp'.errs)
           /\ (~LonInRange(req'.address.lon) => "lon" \in resp'.errs)
           /\ ~conn_opened'
           /\ table' = table
           /\ seq' = seq
           /\ issued' = issued)]_vars

C5_Witness ==
    /\ HasBody(req)
    /\ ~LatInRange(req.address.lat) \/ ~LonInRange(req.address.lon)
    /\ resp.status = 422
    /\ table # {}
    /\ seq < MaxSeq

\* C6: an update with a valid body returns 404 "Address not found" exactly
\* when no row has the path id, and then the table is unchanged; otherwise
\* it returns 200 with the success message.
C6_UpdateNotFoundIffAbsent ==
    [][(req'.op = "update" /\ ValidationErrors(req'.address) = {})
       => IF RowsWithId(table, req'.address_id) = {}
          THEN resp' = NotFound /\ table' = table
          ELSE /\ resp'.status = 200
               /\ resp'.message = "Address updated successfully"]_vars

C6_Witness ==
    /\ req.op = "update"
    /\ resp = NotFound
    /\ req.address_id \in issued
    /\ table # {}

\* C7: a delete returns 200 with the success message whether or not the row
\* exists; afterwards no row has that id; deleting an id that has no row
\* (in particular a second delete) leaves the table unchanged.
C7_DeleteIdempotent ==
    [][req'.op = "delete"
       => (/\ resp'.status = 200
           /\ resp'.message = "Address deleted successfully"
           /\ RowsWithId(table', req'.address_id) = {}
           /\ (RowsWithId(table, req'.address_id) = {} => table' = table)
           /\ ((req.op = "delete" /\ req.address_id = req'.address_id) => table' = table))]_vars

C7_Witness ==
    /\ req.op = "delete"
    /\ resp.status = 200
    /\ rowcount = 0
    /\ req.address_id \in issued
    /\ table # {}

\* C8: a get returns 404 "Address not found" exactly when no row has that
\* id; otherwise 200 with exactly the stored row; the table is unchanged
\* either way.
C8_GetNotFoundIffAbsent ==
    [][req'.op = "get"
       => (/\ table' = table
           /\ IF RowsWithId(table, req'.address_id) = {}
              THEN resp' = NotFound
              ELSE /\ resp'.status = 200
                   /\ resp'.rows = RowsWithId(table, req'.address_id)
                   /\ Cardinality(resp'.rows) = 1)]_vars

C8_Witness ==
    /\ req.op = "get"
    /\ resp = NotFound
    /\ req.address_id \in issued
    /\ table # {}

\* C9: every persisted row has non-empty name, street, city and state, a
\* zip made of digits only, lat within [-90, 90] and lon within [-180, 180].
C9_RowsSatisfyConstraints ==
    \A r \in table :
        /\ r.name # "" /\ r.street # "" /\ r.city # "" /\ r.state # ""
        /\ DigitsOnly(r.zip)
        /\ LatInRange(r.lat)
        /\ LonInRange(r.lon)

\* C10: a successful update replaces the seven columns of the row with the
\* path id by the body's values, keeps that row's id even when the body
\* carries another id, and leaves every other row unchanged.
C10_UpdateFrame ==
    [][(req'.op = "update" /\ resp'.status = 200)
       => (/\ RowsWithId(table', req'.address_id)
                = {Row(req'.address_id, Columns(req'.address))}
           /\ {r \in table' : r.id # req'.address_id}
                = {r \in table : r.id # req'.address_id}
           /\ RowIds(table') = RowIds(table))]_vars

C10_Witness ==
    /\ req.op = "update"
    /\ resp.status = 200
    /\ req.address.id # req.address_id
    /\ Cardinality(table) > 1
    /\ \E r \in table : r.id # req.address_id /\ Columns(r) # Columns(req.address)

====
